---- MODULE Spec2Model ----
(***************************************************************************)
(* Model of src-tauri/src/commands.rs: the link-metadata command           *)
(* fetch_link_metadata and the expense-form window commands                *)
(* open_expense_form_window / get_expense_form_args /                      *)
(* close_expense_form_window, together with the window-event handler of    *)
(* src-tauri/src/lib.rs.                                                   *)
(***************************************************************************)
EXTENDS Integers, Sequences, FiniteSets, TLC

(* ------------------------------ bounds --------------------------------- *)

\* longest response body, counted in tags
MaxDocLen == 2
\* number of fetch_link_metadata calls that may be in flight together
NumCalls == 2
\* number of open_expense_form_window calls that may be in flight together
NumOpeners == 2

(* --------------------------- Option<T> --------------------------------- *)

\* Option<T> is a sequence of length at most one
None == <<>>

Some(x) == <<x>>

\* Option::or_else
OrElse(a, b) == IF a # None THEN a ELSE b

(* ------------------------ documents and tags --------------------------- *)

\* attribute values and text contents that occur in the modelled pages
Contents == {"", "a"}

TitleTexts == {"", "b"}

Properties == {"og:title", "og:description", "og:image", "og:site_name"}

Meta(property, name, content) ==
    [tag |-> "meta", property |-> property, name |-> name,
     content |-> content, text |-> ""]

Title(text) ==
    [tag |-> "title", property |-> None, name |-> None,
     content |-> None, text |-> text]

\* a tag the tree builder cannot turn into an element (unterminated markup)
Malformed ==
    [tag |-> "malformed", property |-> None, name |-> None,
     content |-> None, text |-> ""]

Metas ==
    { Meta(p, n, c) : p \in {None} \cup {Some(x) : x \in Properties},
                      n \in {None, Some("description")},
                      c \in {None} \cup {Some(x) : x \in Contents} }

Tags == Metas \cup {Title(t) : t \in TitleTexts} \cup {Malformed}

SeqsUpTo(S, n) == UNION { [1..k -> S] : k \in 0..n }

\* the response bodies a server may send
Bodies == SeqsUpTo(Tags, MaxDocLen)

\* the three pages served while several calls are in flight
ConcBodies ==
    { <<>>,
      << Meta(Some("og:title"), None, Some("a")) >>,
      << Title("b"), Malformed >> }

\* scraper::Html::parse_document: total, malformed markup yields no element
parse_document(html) == SelectSeq(html, LAMBDA t : t.tag # "malformed")

(* ----------------------------- selectors ------------------------------- *)

\* scraper::Selector::parse("meta[property='...']")
MetaPropertySelector(p) == [tag |-> "meta", attr |-> "property", val |-> p]

og_title_selector == MetaPropertySelector("og:title")

og_desc_selector == MetaPropertySelector("og:description")

og_image_selector == MetaPropertySelector("og:image")

og_site_name_selector == MetaPropertySelector("og:site_name")

title_selector == [tag |-> "title", attr |-> "", val |-> ""]

meta_desc_selector == [tag |-> "meta", attr |-> "name", val |-> "description"]

Matches(sel, el) ==
    /\ el.tag = sel.tag
    /\ \/ sel.attr = ""
       \/ sel.attr = "property" /\ el.property = Some(sel.val)
       \/ sel.attr = "name" /\ el.name = Some(sel.val)

\* document.select(&selector).next()
SelectNext(document, sel) ==
    LET hits == SelectSeq(document, LAMBDA el : Matches(sel, el))
    IN  IF hits = <<>> THEN None ELSE Some(Head(hits))

\* .and_then(|el| el.value().attr("content")).map(|s| s.to_string())
AttrContent(el) == IF el = None THEN None ELSE el[1].content

\* .map(|el| el.text().collect::<String>())
ElementText(el) == IF el = None THEN None ELSE Some(el[1].text)

(* ------------------------- field extraction ---------------------------- *)

ExtractTitleNonEmpty(document) ==
    LET NonEmpty(o) == IF o = Some("") THEN None ELSE o
    IN  OrElse(NonEmpty(AttrContent(SelectNext(document, og_title_selector))),
               NonEmpty(ElementText(SelectNext(document, title_selector))))

ExtractTitleTitleFirst(document) ==
    OrElse(ElementText(SelectNext(document, title_selector)),
           AttrContent(SelectNext(document, og_title_selector)))

ExtractTitleNoFallback(document) ==
    AttrContent(SelectNext(document, og_title_selector))

ExtractTitle(document) ==
    OrElse(AttrContent(SelectNext(document, og_title_selector)),
           ElementText(SelectNext(document, title_selector)))

ExtractDescriptionMetaFirst(document) ==
    OrElse(AttrContent(SelectNext(document, meta_desc_selector)),
           AttrContent(SelectNext(document, og_desc_selector)))

ExtractDescription(document) ==
    OrElse(AttrContent(SelectNext(document, og_desc_selector)),
           AttrContent(SelectNext(document, meta_desc_selector)))

ExtractImageOrDefault(document) ==
    LET o == AttrContent(SelectNext(document, og_image_selector))
    IN  IF o = None THEN Some("") ELSE o

ExtractImage(document) ==
    AttrContent(SelectNext(document, og_image_selector))

ExtractSiteNameOrTitle(document) ==
    OrElse(AttrContent(SelectNext(document, og_site_name_selector)),
           AttrContent(SelectNext(document, og_title_selector)))

ExtractSiteName(document) ==
    AttrContent(SelectNext(document, og_site_name_selector))

(* ------------------------------- urls ---------------------------------- *)

Urls == {"https://example.com/article", " https://example.com/article ", "not a url"}

\* reqwest's IntoUrl (commands.rs:132): surrounding blanks are tolerated,
\* a string with no scheme is rejected when the request is sent
IsValidUrl(u) == u # "not a url"

Trim(u) == IF u = " https://example.com/article " THEN "https://example.com/article" ELSE u

LinkMetadataTrimmed(title, description, image, site_name, u) ==
    [title |-> title, description |-> description, image |-> image,
     site_name |-> site_name, url |-> Trim(u)]

LinkMetadata(title, description, image, site_name, u) ==
    [title |-> title, description |-> description, image |-> image,
     site_name |-> site_name, url |-> u]

\* commands.rs:144-201, the part of the call that runs once the body is read
Extract(html, u) ==
    LET document == parse_document(html)
    IN  LinkMetadata(ExtractTitle(document), ExtractDescription(document),
                     ExtractImage(document), ExtractSiteName(document), u)

\* Result<LinkMetadata, String>
Ok(v) == [kind |-> "Ok", value |-> v]

Err(m) == [kind |-> "Err", msg |-> m]

Pending == [kind |-> "Pending"]

(* ------------------------------- state --------------------------------- *)

VARIABLES
    pc,          \* per call: "idle", "build", "send", "read", "done"
    url,         \* per call: the url argument
    html,        \* per call: the body text read at commands.rs:142
    result,      \* per call: Pending, Ok(LinkMetadata) or Err(String)
    requests,    \* per call: requests put on the wire
    sendSt,      \* per call: outcome of the send step: "none", "ok", "fail"
    bodySt,      \* per call: outcome of the body read: "none", "ok", "fail"
    stored,      \* ExpenseFormState: the Option<ExpenseFormArgs> in the mutex
    expense_form_window,  \* whether a window labelled "expense-form" exists
    opc,         \* per open call: "idle", "check", "sleep", "store", "build", "done"
    oargs,       \* per open call: its args
    ores,        \* per open call: "none", "ok", "err"
    cpc,         \* the close call: "idle", "destroy"
    got          \* what the last get_expense_form_args saw and returned

fetchVars == <<pc, url, html, result, requests, sendSt, bodySt>>

formVars == <<stored, expense_form_window, opc, oargs, ores, cpc, got>>

vars == <<pc, url, html, result, requests, sendSt, bodySt,
          stored, expense_form_window, opc, oargs, ores, cpc, got>>

Calls == 1..NumCalls

Openers == 1..NumOpeners

\* ExpenseFormArgs { expense_id: Option<String>, is_global_edit: bool }
ExpenseFormArgs ==
    [expense_id : {None, Some("e1")}, is_global_edit : BOOLEAN]

NoArgs == [expense_id |-> None, is_global_edit |-> FALSE]

InitFetch ==
    /\ pc = [c \in Calls |-> "idle"]
    /\ url = [c \in Calls |-> ""]
    /\ html = [c \in Calls |-> <<>>]
    /\ result = [c \in Calls |-> Pending]
    /\ requests = [c \in Calls |-> 0]
    /\ sendSt = [c \in Calls |-> "none"]
    /\ bodySt = [c \in Calls |-> "none"]

\* the slot starts empty and no form window is open
InitForm ==
    /\ stored = None
    /\ expense_form_window = FALSE
    /\ opc = [o \in Openers |-> "idle"]
    /\ oargs = [o \in Openers |-> NoArgs]
    /\ ores = [o \in Openers |-> "none"]
    /\ cpc = "idle"
    /\ got = [window |-> FALSE, value |-> None, called |-> FALSE]

Init == InitFetch /\ InitForm

(* ------------------------ fetch_link_metadata -------------------------- *)

\* the front end invokes the command with some url
Invoke(c) ==
    /\ pc[c] = "idle"
    /\ \E u \in Urls : url' = [url EXCEPT ![c] = u]
    /\ pc' = [pc EXCEPT ![c] = "build"]
    /\ UNCHANGED <<html, result, requests, sendSt, bodySt>>
    /\ UNCHANGED formVars

\* commands.rs:126-129: Client::builder()...build().map_err(..)?
BuildClient(c) ==
    /\ pc[c] = "build"
    /\ \/ /\ pc' = [pc EXCEPT ![c] = "send"]
          /\ UNCHANGED result
       \/ /\ pc' = [pc EXCEPT ![c] = "done"]
          /\ result' = [result EXCEPT ![c] = Err("build")]
    /\ UNCHANGED <<url, html, requests, sendSt, bodySt>>
    /\ UNCHANGED formVars

SendRetry(c) ==
    /\ pc[c] = "send"
    /\ IF ~IsValidUrl(url[c])
       THEN /\ pc' = [pc EXCEPT ![c] = "done"]
            /\ sendSt' = [sendSt EXCEPT ![c] = "fail"]
            /\ result' = [result EXCEPT ![c] = Err("send")]
            /\ UNCHANGED requests
       ELSE \/ /\ requests' = [requests EXCEPT ![c] = @ + 1]
               /\ pc' = [pc EXCEPT ![c] = "read"]
               /\ sendSt' = [sendSt EXCEPT ![c] = "ok"]
               /\ UNCHANGED result
            \/ /\ requests[c] < 2
               /\ requests' = [requests EXCEPT ![c] = @ + 1]
               /\ UNCHANGED <<pc, sendSt, result>>
            \/ /\ requests' = [requests EXCEPT ![c] = @ + 1]
               /\ pc' = [pc EXCEPT ![c] = "done"]
               /\ sendSt' = [sendSt EXCEPT ![c] = "fail"]
               /\ result' = [result EXCEPT ![c] = Err("send")]
    /\ UNCHANGED <<url, html, bodySt>>
    /\ UNCHANGED formVars

\* commands.rs:131-140: client.get(&url)...send().await.map_err(..)?
Send(c) ==
    /\ pc[c] = "send"
    /\ IF ~IsValidUrl(url[c])
       THEN /\ pc' = [pc EXCEPT ![c] = "done"]
            /\ sendSt' = [sendSt EXCEPT ![c] = "fail"]
            /\ result' = [result EXCEPT ![c] = Err("send")]
            /\ UNCHANGED requests
       ELSE /\ requests' = [requests EXCEPT ![c] = @ + 1]
            /\ \/ /\ pc' = [pc EXCEPT ![c] = "read"]
                  /\ sendSt' = [sendSt EXCEPT ![c] = "ok"]
                  /\ UNCHANGED result
               \/ /\ pc' = [pc EXCEPT ![c] = "done"]
                  /\ sendSt' = [sendSt EXCEPT ![c] = "fail"]
                  /\ result' = [result EXCEPT ![c] = Err("send")]
    /\ UNCHANGED <<url, html, bodySt>>
    /\ UNCHANGED formVars

ReadBodyLenient(c, bodies) ==
    /\ pc[c] = "read"
    /\ \/ \E b \in bodies :
             /\ html' = [html EXCEPT ![c] = b]
             /\ bodySt' = [bodySt EXCEPT ![c] = "ok"]
             /\ result' = [result EXCEPT ![c] = Ok(Extract(b, url[c]))]
       \/ /\ bodySt' = [bodySt EXCEPT ![c] = "fail"]
          /\ result' = [result EXCEPT ![c] = Ok(Extract(<<>>, url[c]))]
          /\ UNCHANGED html
    /\ pc' = [pc EXCEPT ![c] = "done"]
    /\ UNCHANGED <<url, requests, sendSt>>
    /\ UNCHANGED formVars

\* commands.rs:142-201: response.text().await.map_err(..)?, then the parse,
\* the four extractions and Ok(LinkMetadata {..}), which have no await
ReadBody(c, bodies) ==
    /\ pc[c] = "read"
    /\ \/ \E b \in bodies :
             /\ html' = [html EXCEPT ![c] = b]
             /\ bodySt' = [bodySt EXCEPT ![c] = "ok"]
             /\ result' = [result EXCEPT ![c] = Ok(Extract(b, url[c]))]
       \/ /\ bodySt' = [bodySt EXCEPT ![c] = "fail"]
          /\ result' = [result EXCEPT ![c] = Err("body")]
          /\ UNCHANGED html
    /\ pc' = [pc EXCEPT ![c] = "done"]
    /\ UNCHANGED <<url, requests, sendSt>>
    /\ UNCHANGED formVars

\* the result is handed to the front end; the call's locals are dropped
Return(c) ==
    /\ pc[c] = "done"
    /\ pc' = [pc EXCEPT ![c] = "idle"]
    /\ url' = [url EXCEPT ![c] = ""]
    /\ html' = [html EXCEPT ![c] = <<>>]
    /\ result' = [result EXCEPT ![c] = Pending]
    /\ requests' = [requests EXCEPT ![c] = 0]
    /\ sendSt' = [sendSt EXCEPT ![c] = "none"]
    /\ bodySt' = [bodySt EXCEPT ![c] = "none"]
    /\ UNCHANGED formVars

\* one call at a time, over every body up to MaxDocLen
Next ==
    \/ Invoke(1)
    \/ BuildClient(1)
    \/ Send(1)
    \/ ReadBody(1, Bodies)
    \/ Return(1)

Spec == Init /\ [][Next]_vars

\* NumCalls calls in flight together
NextConc ==
    \E c \in Calls :
       \/ Invoke(c)
       \/ BuildClient(c)
       \/ Send(c)
       \/ ReadBody(c, ConcBodies)
       \/ Return(c)

SpecConc == Init /\ [][NextConc]_vars

(* ------------------- the same url fetched again ------------------------ *)

InsertAt(s, i, t) == SubSeq(s, 1, i - 1) \o <<t>> \o SubSeq(s, i, Len(s))

RemoveAt(s, i) == SubSeq(s, 1, i - 1) \o SubSeq(s, i + 1, Len(s))

\* a completed call, as Spec reaches it for an empty body
InitEdit ==
    /\ pc = [c \in Calls |-> IF c = 1 THEN "done" ELSE "idle"]
    /\ url = [c \in Calls |-> IF c = 1 THEN "https://example.com/article" ELSE ""]
    /\ html = [c \in Calls |-> <<>>]
    /\ result = [c \in Calls |->
                   IF c = 1 THEN Ok(Extract(<<>>, "https://example.com/article"))
                   ELSE Pending]
    /\ requests = [c \in Calls |-> IF c = 1 THEN 1 ELSE 0]
    /\ sendSt = [c \in Calls |-> IF c = 1 THEN "ok" ELSE "none"]
    /\ bodySt = [c \in Calls |-> IF c = 1 THEN "ok" ELSE "none"]
    /\ InitForm

\* commands.rs:125-202 run again on the same url, send and body read both
\* succeeding, the page now being b
Refetch(b) ==
    /\ pc[1] = "done"
    /\ result[1].kind = "Ok"
    /\ html' = [html EXCEPT ![1] = b]
    /\ result' = [result EXCEPT ![1] = Ok(Extract(b, url[1]))]
    /\ UNCHANGED <<pc, url, requests, sendSt, bodySt>>
    /\ UNCHANGED formVars

\* the remote page gained one tag since the last fetch
RefetchTagAdded ==
    /\ Len(html[1]) < MaxDocLen
    /\ \E i \in 1..(Len(html[1]) + 1), t \in Tags :
          Refetch(InsertAt(html[1], i, t))

\* the remote page lost one tag since the last fetch
RefetchTagRemoved ==
    \E i \in 1..Len(html[1]) : Refetch(RemoveAt(html[1], i))

NextEdit ==
    \/ RefetchTagAdded
    \/ RefetchTagRemoved

SpecEdit == InitEdit /\ [][NextEdit]_vars

(* ---------------------- expense-form window ---------------------------- *)

\* the front end invokes open_expense_form_window with some args
OpenInvoke(o) ==
    /\ opc[o] = "idle"
    /\ \E a \in ExpenseFormArgs : oargs' = [oargs EXCEPT ![o] = a]
    /\ opc' = [opc EXCEPT ![o] = "check"]
    /\ ores' = [ores EXCEPT ![o] = "none"]
    /\ UNCHANGED <<stored, expense_form_window, cpc, got>>
    /\ UNCHANGED fetchVars

\* commands.rs:38-39: destroy an existing "expense-form" window
OpenCheck(o) ==
    /\ opc[o] = "check"
    /\ IF expense_form_window
       THEN /\ expense_form_window' = FALSE
            /\ opc' = [opc EXCEPT ![o] = "sleep"]
       ELSE /\ opc' = [opc EXCEPT ![o] = "store"]
            /\ UNCHANGED expense_form_window
    /\ UNCHANGED <<stored, oargs, ores, cpc, got>>
    /\ UNCHANGED fetchVars

\* commands.rs:40: tokio::time::sleep(300 ms).await
OpenSleep(o) ==
    /\ opc[o] = "sleep"
    /\ opc' = [opc EXCEPT ![o] = "store"]
    /\ UNCHANGED <<stored, expense_form_window, oargs, ores, cpc, got>>
    /\ UNCHANGED fetchVars

\* commands.rs:44-48: *stored = Some(args) under the lock
OpenStore(o) ==
    /\ opc[o] = "store"
    /\ stored' = Some(oargs[o])
    /\ opc' = [opc EXCEPT ![o] = "build"]
    /\ UNCHANGED <<expense_form_window, oargs, ores, cpc, got>>
    /\ UNCHANGED fetchVars

\* commands.rs:52-98: position the window, build it (the build fails when
\* the label is taken), show and focus it
OpenBuild(o) ==
    /\ opc[o] = "build"
    /\ IF expense_form_window
       THEN /\ ores' = [ores EXCEPT ![o] = "err"]
            /\ UNCHANGED expense_form_window
       ELSE /\ expense_form_window' = TRUE
            /\ ores' = [ores EXCEPT ![o] = "ok"]
    /\ opc' = [opc EXCEPT ![o] = "done"]
    /\ UNCHANGED <<stored, oargs, cpc, got>>
    /\ UNCHANGED fetchVars

OpenReturn(o) ==
    /\ opc[o] = "done"
    /\ opc' = [opc EXCEPT ![o] = "idle"]
    /\ oargs' = [oargs EXCEPT ![o] = NoArgs]
    /\ ores' = [ores EXCEPT ![o] = "none"]
    /\ UNCHANGED <<stored, expense_form_window, cpc, got>>
    /\ UNCHANGED fetchVars

\* commands.rs:101-106: clone the slot under the lock
get_expense_form_args ==
    /\ got' = [window |-> expense_form_window, value |-> stored, called |-> TRUE]
    /\ UNCHANGED <<stored, expense_form_window, opc, oargs, ores, cpc>>
    /\ UNCHANGED fetchVars

\* commands.rs:111-115: *stored = None under the lock
CloseClear ==
    /\ cpc = "idle"
    /\ stored' = None
    /\ cpc' = "destroy"
    /\ UNCHANGED <<expense_form_window, opc, oargs, ores, got>>
    /\ UNCHANGED fetchVars

\* commands.rs:117-121: destroy the window when there is one
CloseDestroy ==
    /\ cpc = "destroy"
    /\ expense_form_window' = FALSE
    /\ cpc' = "idle"
    /\ UNCHANGED <<stored, opc, oargs, ores, got>>
    /\ UNCHANGED fetchVars

\* lib.rs:84-90: a close request is logged and not prevented, so the user
\* closing the form window makes it go away
WindowCloseRequested ==
    /\ expense_form_window
    /\ expense_form_window' = FALSE
    /\ UNCHANGED <<stored, opc, oargs, ores, cpc, got>>
    /\ UNCHANGED fetchVars

NextForm ==
    \/ \E o \in Openers :
          \/ OpenInvoke(o)
          \/ OpenCheck(o)
          \/ OpenSleep(o)
          \/ OpenStore(o)
          \/ OpenBuild(o)
          \/ OpenReturn(o)
    \/ get_expense_form_args
    \/ CloseClear
    \/ CloseDestroy
    \/ WindowCloseRequested

SpecForm == Init /\ [][NextForm]_vars

(* ============================ properties =============================== *)

Fields == {"title", "description", "image", "site_name"}

\* a call that returned a record
Returned(c) == pc[c] = "done" /\ result[c].kind = "Ok"

\* the elements of the page a call read
Doc(c) == parse_document(html[c])

IsOgTag(p, el) == el.tag = "meta" /\ el.property = Some(p)

IsOgTitle(el) == IsOgTag("og:title", el)

IsOgDescription(el) == IsOgTag("og:description", el)

IsOgImage(el) == IsOgTag("og:image", el)

IsOgSiteName(el) == IsOgTag("og:site_name", el)

IsMetaDescription(el) == el.tag = "meta" /\ el.name = Some("description")

IsTitle(el) == el.tag = "title"

Has(d, Test(_)) == \E i \in 1..Len(d) : Test(d[i])

\* the first element of d, in document order, that passes Test
First(d, Test(_)) ==
    d[CHOOSE i \in 1..Len(d) : Test(d[i]) /\ \A j \in 1..(i - 1) : ~Test(d[j])]

\* the content attribute of the first element passing Test, if it has one
FirstContent(d, Test(_)) == IF Has(d, Test) THEN First(d, Test).content ELSE None

\* the text of the first <title> element
FirstTitleText(d) == IF Has(d, IsTitle) THEN Some(First(d, IsTitle).text) ELSE None

\* what each selector of a field's chain yields, in chain order
Chain(f, d) ==
    CASE f = "title" -> << FirstContent(d, IsOgTitle), FirstTitleText(d) >>
      [] f = "description" ->
            << FirstContent(d, IsOgDescription), FirstContent(d, IsMetaDescription) >>
      [] f = "image" -> << FirstContent(d, IsOgImage) >>
      [] f = "site_name" -> << FirstContent(d, IsOgSiteName) >>

\* the first entry of a chain that wins, None when none does
FirstWinner(chain, Wins(_)) ==
    IF \E i \in 1..Len(chain) : Wins(chain[i])
    THEN chain[CHOOSE i \in 1..Len(chain) :
                  Wins(chain[i]) /\ \A j \in 1..(i - 1) : ~Wins(chain[j])]
    ELSE None

IsNonEmpty(o) == o # None /\ o # Some("")

IsSupplied(o) == o # None

(* C1: when fetch_link_metadata succeeds, the record's url field is exactly
   the input string, whatever the other four fields are. *)
C1_UrlEchoed ==
    \A c \in Calls : Returned(c) => result[c].value.url = url[c]

C1_Witness ==
    /\ Returned(1)
    /\ url[1] = " https://example.com/article "
    /\ result[1].value.url = " https://example.com/article "
    /\ result[1].value.title # None
    /\ result[1].value.image = None

(* C2, as stated: every field takes its value from the first selector of
   its chain that yields a non-empty match; an empty match does not win and
   the next selector is tried. *)
C2_NonEmptyMatchWins ==
    \A c \in Calls : Returned(c) =>
        \A f \in Fields :
            result[c].value[f] = FirstWinner(Chain(f, Doc(c)), IsNonEmpty)

(* C2, amended: every field takes its value from the first selector of its
   chain whose first matching element supplies a value (a content
   attribute, or the text of <title>), empty or not: an empty content or an
   empty <title> wins, and the field is absent only when no selector's
   first match supplies a value. *)
C2_FirstSuppliedValueWins ==
    \A c \in Calls : Returned(c) =>
        \A f \in Fields :
            /\ result[c].value[f] = FirstWinner(Chain(f, Doc(c)), IsSupplied)
            /\ (result[c].value[f] = None) <=>
                   (\A i \in 1..Len(Chain(f, Doc(c))) : Chain(f, Doc(c))[i] = None)

C2_Witness ==
    /\ Returned(1)
    /\ FirstContent(Doc(1), IsOgTitle) = Some("")
    /\ FirstTitleText(Doc(1)) = Some("b")
    /\ result[1].value.title = Some("")

(* C3, as stated: a document with both an og:title meta tag and a <title>
   element of different text yields the og:title content, never the
   <title> text. *)
C3_OgTitleAlwaysWins ==
    \A c \in Calls :
        (/\ Returned(c)
         /\ Has(Doc(c), IsOgTitle)
         /\ Has(Doc(c), IsTitle)
         /\ FirstContent(Doc(c), IsOgTitle) # FirstTitleText(Doc(c)))
        => /\ result[c].value.title = FirstContent(Doc(c), IsOgTitle)
           /\ result[c].value.title # FirstTitleText(Doc(c))

(* C3, amended: a document whose first og:title meta tag carries a content
   attribute and which has a <title> element of different text yields that
   content, never the <title> text. *)
C3_OgTitleWithContentWins ==
    \A c \in Calls :
        (/\ Returned(c)
         /\ Has(Doc(c), IsOgTitle)
         /\ First(Doc(c), IsOgTitle).content # None
         /\ Has(Doc(c), IsTitle)
         /\ FirstContent(Doc(c), IsOgTitle) # FirstTitleText(Doc(c)))
        => /\ result[c].value.title = First(Doc(c), IsOgTitle).content
           /\ result[c].value.title # FirstTitleText(Doc(c))

C3_Witness ==
    /\ Returned(1)
    /\ Len(Doc(1)) = 2
    /\ IsTitle(Doc(1)[1]) /\ Doc(1)[1].text = "b"
    /\ IsOgTitle(Doc(1)[2]) /\ Doc(1)[2].content = Some("a")
    /\ result[1].value.title = Some("a")

(* C4: a document with no og:title meta tag and a non-empty <title> element
   yields the text of the first <title> element. *)
C4_TitleFallback ==
    \A c \in Calls :
        (/\ Returned(c)
         /\ ~Has(Doc(c), IsOgTitle)
         /\ \E i \in 1..Len(Doc(c)) : IsTitle(Doc(c)[i]) /\ Doc(c)[i].text # "")
        => result[c].value.title = Some(First(Doc(c), IsTitle).text)

C4_Witness ==
    /\ Returned(1)
    /\ ~Has(Doc(1), IsOgTitle)
    /\ Len(Doc(1)) = 2
    /\ IsTitle(Doc(1)[1]) /\ Doc(1)[1].text = "b"
    /\ IsTitle(Doc(1)[2]) /\ Doc(1)[2].text = ""
    /\ result[1].value.title = Some("b")

(* C5, as stated: the description is the content of the og:description
   meta tag when one is present, otherwise the content of the meta tag
   named description, otherwise absent. *)
C5_OgDescriptionWhenPresent ==
    \A c \in Calls : Returned(c) =>
        result[c].value.description =
            IF Has(Doc(c), IsOgDescription)
            THEN First(Doc(c), IsOgDescription).content
            ELSE IF Has(Doc(c), IsMetaDescription)
                 THEN First(Doc(c), IsMetaDescription).content
                 ELSE None

(* C5, amended: the description is the content of the first og:description
   meta tag when that tag carries a content attribute, otherwise the
   content of the first meta tag named description, otherwise absent; a
   document with only <meta name="description" content=...> yields that
   content. *)
C5_DescriptionChain ==
    \A c \in Calls : Returned(c) =>
        /\ result[c].value.description =
               IF Has(Doc(c), IsOgDescription)
                  /\ First(Doc(c), IsOgDescription).content # None
               THEN First(Doc(c), IsOgDescription).content
               ELSE IF Has(Doc(c), IsMetaDescription)
                    THEN First(Doc(c), IsMetaDescription).content
                    ELSE None
        /\ (Doc(c) = << Meta(None, Some("description"), Some("a")) >>
               => result[c].value.description = Some("a"))

C5_Witness ==
    /\ Returned(1)
    /\ Len(Doc(1)) = 2
    /\ Doc(1)[1] = Meta(None, Some("description"), Some(""))
    /\ Doc(1)[2] = Meta(Some("og:description"), None, Some("a"))
    /\ result[1].value.description = Some("a")

(* C6: when the request cannot be sent or the body cannot be read the call
   returns an error and no record; a record is returned only after both the
   send step and the body-read step have succeeded. *)
C6_TransportFailureYieldsNoRecord ==
    \A c \in Calls :
        /\ result[c].kind = "Ok" => sendSt[c] = "ok" /\ bodySt[c] = "ok"
        /\ (pc[c] = "done" /\ (sendSt[c] = "fail" \/ bodySt[c] = "fail"))
               => result[c].kind = "Err"
        /\ pc[c] # "done" => result[c].kind = "Pending"

C6_Witness ==
    /\ pc[1] = "done"
    /\ sendSt[1] = "ok"
    /\ bodySt[1] = "fail"
    /\ result[1].kind = "Err"

\* an element one of the six selectors matches
IsRecognized(el) ==
    \/ IsOgTitle(el) \/ IsTitle(el) \/ IsOgDescription(el)
    \/ IsMetaDescription(el) \/ IsOgImage(el) \/ IsOgSiteName(el)

(* C7: a fetched document with none of the recognized tags still yields a
   record, with title, description, image and site_name all absent; once
   the body has been read no document content makes the call fail. *)
C7_GracefulAbsence ==
    \A c \in Calls :
        /\ (pc[c] = "done" /\ bodySt[c] = "ok") => result[c].kind = "Ok"
        /\ (Returned(c) /\ ~Has(Doc(c), IsRecognized))
               => \A f \in Fields : result[c].value[f] = None

C7_Witness ==
    /\ Returned(1)
    /\ html[1] = << Malformed, Meta(None, None, Some("a")) >>
    /\ \A f \in Fields : result[1].value[f] = None

\* the tags of d that are source tags of field f
SourceTags(f, d) ==
    CASE f = "title" -> SelectSeq(d, LAMBDA el : IsOgTitle(el) \/ IsTitle(el))
      [] f = "description" ->
            SelectSeq(d, LAMBDA el : IsOgDescription(el) \/ IsMetaDescription(el))
      [] f = "image" -> SelectSeq(d, IsOgImage)
      [] f = "site_name" -> SelectSeq(d, IsOgSiteName)

(* C8: two documents that differ only in the source tags of one field give
   the same url and the same values for the other three fields (a field
   whose own source tags are the same in both pages has the same value),
   and image and site_name are present exactly when their own og tag
   supplies a content value. *)
C8_FieldIndependence ==
    /\ [][ /\ result'[1].value.url = result[1].value.url
           /\ \A f \in Fields :
                 SourceTags(f, parse_document(html'[1])) = SourceTags(f, Doc(1))
                    => result'[1].value[f] = result[1].value[f] ]_vars
    /\ [](/\ result[1].value.image # None
             <=> (Has(Doc(1), IsOgImage) /\ First(Doc(1), IsOgImage).content # None)
          /\ result[1].value.site_name # None
             <=> (Has(Doc(1), IsOgSiteName)
                  /\ First(Doc(1), IsOgSiteName).content # None))

C8_Witness ==
    /\ Returned(1)
    /\ html[1] = << Meta(Some("og:title"), None, Some("a")),
                    Meta(Some("og:image"), None, Some("")) >>
    /\ result[1].value.title = Some("a")
    /\ result[1].value.image = Some("")
    /\ result[1].value.site_name = None
    /\ result[1].value.description = None

====
